---- MODULE Spec2Model ----
(***************************************************************************)
(* A model of the terminal rendering core: the cell grid and its diff      *)
(* (buffer.rs), the modifier diff (style.rs), the Area/Canvas/Line layout  *)
(* calculus (lib.rs) and the frame driver (terminal.rs), together with the *)
(* terminal the driver writes to.                                          *)
(*                                                                         *)
(* Buffers are 0-indexed in the source; content is a sequence here, so the *)
(* cell of index i is content[i + 1].                                      *)
(***************************************************************************)
EXTENDS Integers, Sequences, FiniteSets, TLC

VARIABLES
    pc,           \* where the caller is: start, idle, render, suspended, gone, panic, ...
    debug,        \* the build has debug assertions and overflow checks
    raw,          \* the terminal is in raw mode
    alt,          \* the terminal shows the alternate screen
    termSize,     \* <<columns, rows>> terminal::size() reports
    screen,       \* the alternate screen's grid, as displayed
    tsgr,         \* the terminal's active colours and emphases
    tcursor,      \* the terminal's cursor: [visible, pos]
    size,         \* Terminal.size
    draw_buffer,  \* Terminal.draw_buffer
    prev_buffer,  \* Terminal.prev_buffer
    area,         \* Canvas.area of the canvas handed to the closure
    line,         \* the Line the closure holds, or NoLine
    split,        \* the Split the closure holds, or NoSplit
    changes,      \* the sequence Buffer::diff returned last
    out,          \* the instructions queued by the running/last call, in order
    last,         \* the last operation performed and how it ended
    hist,         \* what the claims need of the past (see each use)
    from,         \* Modifier::diff's argument
    to            \* Modifier::diff's argument

vars == <<pc, debug, raw, alt, termSize, screen, tsgr, tcursor, size, draw_buffer,
          prev_buffer, area, line, split, changes, out, last, hist, from, to>>

(***************************************************************************)
(* Bounds of the model.                                                    *)
(***************************************************************************)
MaxCols == 3
MaxRows == 2
MaxWrites == 3
MaxGap == 2
MaxOps == 5
MaxFrameOps == 6
MaxDriverOps == 3
MaxCalls == 3

Min(a, b) == IF a < b THEN a ELSE b

(***************************************************************************)
(* style.rs                                                                *)
(***************************************************************************)
\* The six flags in ascending bit order (bit k of the u8 is ModBits[k + 1]).
ModBits == <<"BOLD", "DIM", "ITALIC", "UNDERLINED", "REVERSED", "CROSSED_OUT">>

Modifiers == SUBSET {ModBits[k] : k \in 1..Len(ModBits)}

\* IterModifier: the flags of m, lowest bit first.
RECURSIVE IterFrom(_, _)
IterFrom(m, k) ==
    IF k > Len(ModBits) THEN <<>>
    ELSE IF ModBits[k] \in m THEN <<ModBits[k]>> \o IterFrom(m, k + 1)
    ELSE IterFrom(m, k + 1)

IterModifier(m) == IterFrom(m, 1)

\* The attribute Modifier::diff sets for a removed flag.
RemovedAttribute(flag) ==
    CASE flag = "REVERSED" -> "NoReverse"
      [] flag = "BOLD" -> "NormalIntensity"
      [] flag = "ITALIC" -> "NoItalic"
      [] flag = "UNDERLINED" -> "NoUnderline"
      [] flag = "DIM" -> "NormalIntensity"
      [] flag = "CROSSED_OUT" -> "NotCrossedOut"

\* The attribute Modifier::diff sets for an added flag.
AddedAttribute(flag) ==
    CASE flag = "REVERSED" -> "Reverse"
      [] flag = "BOLD" -> "Bold"
      [] flag = "ITALIC" -> "Italic"
      [] flag = "UNDERLINED" -> "Underlined"
      [] flag = "DIM" -> "Dim"
      [] flag = "CROSSED_OUT" -> "CrossedOut"

SetAttribute(a) == [op |-> "SetAttribute", attr |-> a]

\* Modifier::diff: the instructions queued, in order.
ModifierDiff(f, t) ==
    LET removed == IterModifier(f \ t)
        added == IterModifier(t \ f)
    IN  [k \in 1..Len(removed) |-> SetAttribute(RemovedAttribute(removed[k]))]
        \o [k \in 1..Len(added) |-> SetAttribute(AddedAttribute(added[k]))]

\* Style: fg and bg are "None" or a colour.
Style(fg, bg, modifier) == [fg |-> fg, bg |-> bg, modifier |-> modifier]

none == Style("None", "None", {})

(***************************************************************************)
(* buffer.rs                                                               *)
(***************************************************************************)
\* unicode_width's width of a char, with unwrap_or(0): control characters
\* have none. "W" stands for a wide glyph, "Z" for a zero-width character.
CharWidth(c) ==
    CASE c = "W" -> 2
      [] c = "Z" -> 0
      [] OTHER -> 1

Cell(ch, fg, bg, modifier) == [char |-> ch, fg |-> fg, bg |-> bg, modifier |-> modifier]

\* Cell::default, and what Cell::reset leaves.
DefaultCell == Cell(" ", "Reset", "Reset", {})

\* Cell::set_char then Cell::set_style.
SetCell(cell, ch, style) ==
    [char |-> ch,
     fg |-> IF style.fg # "None" THEN style.fg ELSE cell.fg,
     bg |-> IF style.bg # "None" THEN style.bg ELSE cell.bg,
     modifier |-> style.modifier]

\* Option::None of a position (Some((x, y)) is <<x, y>>).
NoPos == <<>>

Buffer(nb_col, nb_row, content, cursor_pos) ==
    [nb_col |-> nb_col, nb_row |-> nb_row, content |-> content, cursor_pos |-> cursor_pos]

\* Buffer::empty (through Buffer::filled with the default cell).
Empty(nb_col, nb_row) ==
    Buffer(nb_col, nb_row, [i \in 1..(nb_col * nb_row) |-> DefaultCell], NoPos)

\* Buffer::char_at on an index inside the content (outside it the Vec's index panics).
CharAt(buf, index, ch, style) ==
    [buf EXCEPT !.content[index + 1] = SetCell(@, ch, style)]

\* Buffer::resize: Vec::resize keeps the cells below the new length and
\* appends default cells above the old one.
Resize(buf, nb_col, nb_row) ==
    [buf EXCEPT !.content = [i \in 1..(nb_col * nb_row) |->
                                IF i <= Len(buf.content) THEN buf.content[i] ELSE DefaultCell],
                !.nb_col = nb_col,
                !.nb_row = nb_row]

\* Buffer::reset.
Reset(buf) ==
    [buf EXCEPT !.cursor_pos = NoPos,
                !.content = [i \in 1..Len(buf.content) |-> DefaultCell]]

\* u16 is modelled U16Bits wide (16 in the program), so that a buffer the
\* model can hold has more cells than a u16 counts; usize stays wider.
U16Bits == 4

\* The modulus of the `as u16` casts in Buffer::diff and Terminal::draw.
U16 == 2 ^ U16Bits

Update(x, y, cell) == [x |-> x, y |-> y, cell |-> cell]

\* The loop of Buffer::diff over zip(next_buffer, previous_buffer), from index i.
RECURSIVE DiffLoop(_, _, _, _, _)
DiffLoop(previous_buffer, next_buffer, width, i, skip) ==
    IF i >= Min(Len(next_buffer), Len(previous_buffer)) THEN <<>>
    ELSE LET current == next_buffer[i + 1]
             previous == previous_buffer[i + 1]
             x == (i % U16) % (width % U16)
             y == (i % U16) \div (width % U16)
             rest == DiffLoop(previous_buffer, next_buffer, width, i + 1,
                              CharWidth(current.char) > 1)
         IN  IF current # previous /\ ~skip
             THEN <<Update(x, y, current)>> \o rest
             ELSE rest

\* The same loop with the skip flag taken from the previous buffer.
RECURSIVE DiffLoopSkipPrev(_, _, _, _, _)
DiffLoopSkipPrev(previous_buffer, next_buffer, width, i, skip) ==
    IF i >= Min(Len(next_buffer), Len(previous_buffer)) THEN <<>>
    ELSE LET current == next_buffer[i + 1]
             previous == previous_buffer[i + 1]
             x == (i % U16) % (width % U16)
             y == (i % U16) \div (width % U16)
             rest == DiffLoopSkipPrev(previous_buffer, next_buffer, width, i + 1,
                                      CharWidth(previous.char) > 1)
         IN  IF current # previous /\ ~skip
             THEN <<Update(x, y, current)>> \o rest
             ELSE rest

DiffSkipPrev(self, other) == DiffLoopSkipPrev(self.content, other.content, self.nb_col, 0, FALSE)

\* Buffer::diff.
Diff(self, other) == DiffLoop(self.content, other.content, self.nb_col, 0, FALSE)

(***************************************************************************)
(* lib.rs                                                                  *)
(***************************************************************************)
\* usize is modelled UsizeBits wide (TLC's integers are 32-bit); release
\* builds wrap at 2^UsizeBits, debug builds panic instead.
UsizeBits == 16

Usize == 2 ^ UsizeBits

Area(x, y, w, h) == [x |-> x, y |-> y, w |-> w, h |-> h]

\* Area::consume: remove the top line.
Consume(a) == IF a.h > 0 THEN [a EXCEPT !.y = (a.y + 1) % Usize, !.h = a.h - 1] ELSE a

\* Area::rconsume: remove the bottom line.
RConsume(a) == IF a.h > 0 THEN [a EXCEPT !.h = a.h - 1] ELSE a

\* Buffer::canvas: the canvas covers the whole buffer.
CanvasArea(buf) == Area(0, 0, buf.nb_col, buf.nb_row)

\* A text is what Display::fmt hands to write_str: a sequence of string
\* fragments, each a sequence of chars.
RECURSIVE StrWidth(_)
StrWidth(s) == IF s = <<>> THEN 0 ELSE CharWidth(Head(s)) + StrWidth(Tail(s))

\* width(): Measure::write_str adds each fragment's width.
RECURSIVE Width(_)
Width(text) == IF text = <<>> THEN 0 ELSE StrWidth(Head(text)) + Width(Tail(text))

\* The state a Writer works on: the line's index and remaining width, the
\* buffer's cells, and whether an index outside the Vec has panicked.
WState(index, remaining, content, panic) ==
    [index |-> index, remaining |-> remaining, content |-> content, panic |-> panic]

\* Writer::write_str from the k-th char of s.
RECURSIVE WriteStrFrom(_, _, _, _)
WriteStrFrom(st, s, k, style) ==
    IF k > Len(s) \/ st.panic THEN st
    ELSE LET c == s[k]
             width == CharWidth(c)
         IN  IF width = 0 THEN WriteStrFrom(st, s, k + 1, style)
             ELSE IF width > st.remaining THEN st
             ELSE IF st.index >= Len(st.content) THEN [st EXCEPT !.panic = TRUE]
             ELSE WriteStrFrom(
                    WState((st.index + width) % Usize,
                           st.remaining - width,
                           [st.content EXCEPT ![st.index + 1] = SetCell(@, c, style)],
                           FALSE),
                    s, k + 1, style)

\* Writer::write_str.
WriteStr(st, s, style) == WriteStrFrom(st, s, 1, style)

\* Line::draw: write_fmt calls write_str once per fragment, in order.
RECURSIVE Draw(_, _, _)
Draw(st, text, style) ==
    IF text = <<>> THEN st ELSE Draw(WriteStr(st, Head(text), style), Tail(text), style)

\* Line::rdraw: draws on a dummy line at the end of the line, then gives up
\* the width it took.
RDraw(st, text, style) ==
    LET fit == Min(Width(text), st.remaining)
        drawn == Draw(WState((st.index + st.remaining - fit) % Usize, fit, st.content, FALSE),
                      text, style)
    IN  WState(st.index, st.remaining - fit, drawn.content, drawn.panic)

\* Buffer::index_of's debug assertion.
IndexInside(buf, x, y) == x < buf.nb_col /\ y < buf.nb_row

\* Buffer::index_of's result.
IndexOf(buf, x, y) == (y * buf.nb_col + x) % Usize

\* Buffer::pos_of's debug assertion.
PosInside(buf, i) == i < Len(buf.content)

\* Buffer::pos_of's result (nb_col is not 0).
PosOf(buf, i) == <<i % buf.nb_col, i \div buf.nb_col>>

NoLine == [index |-> 0, remaining |-> 0, held |-> FALSE]

Line(index, remaining) == [index |-> index, remaining |-> remaining, held |-> TRUE]

\* SplitBuilder::apply with the subtraction's result given: the halves.
SplitOf(a, vertical, gap, space) ==
    LET first == space \div 2
        second == (space \div 2) + (space % 2)
    IN  IF vertical
        THEN [first |-> [a EXCEPT !.h = first],
              second |-> [a EXCEPT !.y = (a.y + gap + first) % Usize, !.h = second],
              held |-> TRUE]
        ELSE [first |-> [a EXCEPT !.w = first],
              second |-> [a EXCEPT !.x = (a.x + gap + first) % Usize, !.w = second],
              held |-> TRUE]

\* SplitBuilder::apply in a build without overflow checks: the subtraction wraps.
Apply(a, vertical, gap) ==
    SplitOf(a, vertical, gap, ((IF vertical THEN a.h ELSE a.w) - gap) % Usize)

\* The subtraction of SplitBuilder::apply overflows.
ApplyOverflows(a, vertical, gap) == gap > (IF vertical THEN a.h ELSE a.w)

NoSplit == [first |-> Area(0, 0, 0, 0), second |-> Area(0, 0, 0, 0), held |-> FALSE]

(***************************************************************************)
(* terminal.rs: the instructions queued on stdout                          *)
(***************************************************************************)
\* An instruction of the terminal control layer; a and b are its arguments
\* (0 when it has none).
Instr(op, a, b) == [op |-> op, a |-> a, b |-> b]

Op(op) == Instr(op, 0, 0)

\* Modifier::diff's instructions in that form.
AttrInstrs(f, t) ==
    LET d == ModifierDiff(f, t)
    IN  [k \in 1..Len(d) |-> Instr("SetAttribute", d[k].attr, 0)]

\* The colour instruction draw_changes picks for a cell.
ColorInstrs(colors, new) ==
    IF colors[1] # new[1] /\ colors[2] # new[2] THEN <<Instr("SetColors", new[1], new[2])>>
    ELSE IF colors[1] # new[1] THEN <<Instr("SetForegroundColor", new[1], 0)>>
    ELSE IF colors[2] # new[2] THEN <<Instr("SetBackgroundColor", new[2], 0)>>
    ELSE <<>>

\* The loop of Terminal::draw_changes from entry k; last_pos is <<>> for None.
RECURSIVE DrawChangesFrom(_, _, _, _, _)
DrawChangesFrom(content, k, colors, modifier, last_pos) ==
    IF k > Len(content) THEN <<>>
    ELSE LET e == content[k]
             adjacent == last_pos # <<>> /\ e.x = last_pos[1] + 1 /\ e.y = last_pos[2]
             move == IF adjacent THEN <<>> ELSE <<Instr("MoveTo", e.x, e.y)>>
             attrs == IF e.cell.modifier # modifier
                      THEN AttrInstrs(modifier, e.cell.modifier) ELSE <<>>
             new == <<e.cell.fg, e.cell.bg>>
         IN  move \o attrs \o ColorInstrs(colors, new) \o <<Instr("Print", e.cell.char, 0)>>
             \o DrawChangesFrom(content, k + 1, new, e.cell.modifier, <<e.x, e.y>>)

\* Terminal::draw_changes.
DrawChanges(content) ==
    <<Instr("SetForegroundColor", "Reset", 0), Instr("SetBackgroundColor", "Reset", 0),
      Instr("SetAttribute", "Reset", 0)>>
    \o DrawChangesFrom(content, 1, <<"Reset", "Reset">>, {}, <<>>)

\* The cursor instructions Terminal::draw queues after apply_change.
CursorInstrs(pos) ==
    IF pos = NoPos THEN <<Op("Hide")>>
    ELSE <<Op("Show"), Instr("MoveTo", pos[1] % U16, pos[2] % U16)>>

(***************************************************************************)
(* The terminal (the control layer's other side): what each instruction    *)
(* does to the alternate screen, the active attributes and the cursor.     *)
(***************************************************************************)
\* The column a wide glyph's second half covers.
Covered == Cell("<", "Reset", "Reset", {})

BlankScreen(sz) == [i \in 1..(sz[1] * sz[2]) |-> DefaultCell]

\* The emphases left active by a set-attribute instruction.
ApplyAttr(attrs, a) ==
    CASE a = "Reset" -> {}
      [] a = "Bold" -> attrs \cup {"BOLD"}
      [] a = "Dim" -> attrs \cup {"DIM"}
      [] a = "NormalIntensity" -> attrs \ {"BOLD", "DIM"}
      [] a = "Italic" -> attrs \cup {"ITALIC"}
      [] a = "NoItalic" -> attrs \ {"ITALIC"}
      [] a = "Underlined" -> attrs \cup {"UNDERLINED"}
      [] a = "NoUnderline" -> attrs \ {"UNDERLINED"}
      [] a = "Reverse" -> attrs \cup {"REVERSED"}
      [] a = "NoReverse" -> attrs \ {"REVERSED"}
      [] a = "CrossedOut" -> attrs \cup {"CROSSED_OUT"}
      [] a = "NotCrossedOut" -> attrs \ {"CROSSED_OUT"}

\* A terminal: its grid (cols columns wide), attributes and cursor.
Term(cols, grid, sgr, cur) == [cols |-> cols, grid |-> grid, sgr |-> sgr, cur |-> cur]

\* Printing a char at the cursor: the glyph takes the cell (and, when wide,
\* covers the next column); a wide glyph it cuts in half is blanked.
PrintAt(t, ch) ==
    LET x == t.cur.pos[1]
        y == t.cur.pos[2]
        i == y * t.cols + x + 1
        w == CharWidth(ch)
        g0 == t.grid
        g1 == IF g0[i] = Covered /\ x > 0 THEN [g0 EXCEPT ![i - 1] = DefaultCell] ELSE g0
        g2 == IF CharWidth(g1[i].char) > 1 /\ x + 1 < t.cols /\ g1[i + 1] = Covered
              THEN [g1 EXCEPT ![i + 1] = DefaultCell] ELSE g1
        g3 == [g2 EXCEPT ![i] = Cell(ch, t.sgr.fg, t.sgr.bg, t.sgr.attrs)]
        g4 == IF w > 1 /\ x + 2 < t.cols /\ CharWidth(g3[i + 1].char) > 1 /\ g3[i + 2] = Covered
              THEN [g3 EXCEPT ![i + 2] = DefaultCell] ELSE g3
        g5 == IF w > 1 /\ x + 1 < t.cols THEN [g4 EXCEPT ![i + 1] = Covered] ELSE g4
    IN  IF x < t.cols /\ i <= Len(g0)
        THEN [t EXCEPT !.grid = g5, !.cur.pos = <<x + w, y>>]
        ELSE t

TermStep(t, ins) ==
    CASE ins.op = "Clear" -> [t EXCEPT !.grid = [i \in 1..Len(t.grid) |-> DefaultCell]]
      [] ins.op = "MoveTo" -> [t EXCEPT !.cur.pos = <<ins.a, ins.b>>]
      [] ins.op = "Show" -> [t EXCEPT !.cur.visible = TRUE]
      [] ins.op = "Hide" -> [t EXCEPT !.cur.visible = FALSE]
      [] ins.op = "SetAttribute" -> [t EXCEPT !.sgr.attrs = ApplyAttr(@, ins.a)]
      [] ins.op = "SetColors" -> [t EXCEPT !.sgr.fg = ins.a, !.sgr.bg = ins.b]
      [] ins.op = "SetForegroundColor" -> [t EXCEPT !.sgr.fg = ins.a]
      [] ins.op = "SetBackgroundColor" -> [t EXCEPT !.sgr.bg = ins.a]
      [] ins.op = "Print" -> PrintAt(t, ins.a)
      [] OTHER -> t

RECURSIVE TermRun(_, _)
TermRun(t, instrs) ==
    IF instrs = <<>> THEN t ELSE TermRun(TermStep(t, Head(instrs)), Tail(instrs))

DefaultSgr == [fg |-> "Reset", bg |-> "Reset", attrs |-> {}]

DefaultCursor == [visible |-> TRUE, pos |-> <<0, 0>>]

(***************************************************************************)
(* The inputs the model draws from.                                        *)
(***************************************************************************)
\* Strings: "a" and "b" are narrow, "W" is wide, "Z" has no width.
Strs == {<<"a">>, <<"a", "b">>, <<"W">>, <<"W", "a">>, <<"Z", "a">>, <<"a", "Z", "b">>}

\* Texts: each string as one fragment, and one text of two fragments.
Texts == {<<s>> : s \in Strs} \cup {<<<<"W">>, <<"a">>>>}

Styles == {none, Style("Red", "None", {"BOLD"})}

Gaps == 0..MaxGap

Record(op, res) == [op |-> op, res |-> res]

\* hist: clean (no call has returned an error), cursorCall (the position the
\* closure's last Line::cursor call recorded, NoPos before any),
\* sinceSuspend (the draws begun since the last successful suspend_ui: 0, 1,
\* or 2 for more or no suspend_ui), resized (the running or last draw's
\* autoresize saw a new size), orig (the rectangle the canvas was given last),
\* rows (the rows top and btm have handed out of it, in order), vertical and
\* gap (the last split's arguments), n (a counter of the steps taken), limit
\* (the number of steps a closure may take), calls (the draw and suspend_ui
\* calls made), placed (the draws the last Canvas::wrap made: the segment,
\* the row and the line's index and remaining width before the draw).
History == [clean |-> TRUE, cursorCall |-> NoPos, sinceSuspend |-> 2, resized |-> FALSE,
            orig |-> Area(0, 0, 0, 0), rows |-> <<>>, vertical |-> FALSE, gap |-> 0,
            n |-> 0, limit |-> 0, calls |-> 0, placed |-> <<>>]

(***************************************************************************)
(* lib.rs: what the render closure can do with its canvas                  *)
(***************************************************************************)
\* The closure is running and may take another step.
InClosure == pc = "render" /\ hist.n < hist.limit

Count(h) == [h EXCEPT !.n = @ + 1]

Panic(op) ==
    /\ pc' = "panic"
    /\ last' = Record(op, "panic")

\* The Line a Canvas hands out for row `row` of its area (Canvas::index_of(0, row)).
TakeLine(op, row, consumed) ==
    LET x == area.x % Usize
        y == (area.y + row) % Usize
    IN  IF debug /\ ~IndexInside(draw_buffer, x, y)
        THEN /\ Panic(op)
             /\ hist' = Count(hist)
             /\ UNCHANGED <<area, line>>
        ELSE /\ line' = Line(IndexOf(draw_buffer, x, y), area.w)
             /\ area' = consumed
             /\ hist' = Count([hist EXCEPT !.rows = Append(@, y)])
             /\ last' = Record(op, "row")
             /\ pc' = pc

\* Canvas::top.
Top ==
    /\ InClosure
    /\ IF area.h > 0
       THEN TakeLine("top", 0, Consume(area))
       ELSE /\ line' = Line(0, 0)
            /\ last' = Record("top", "empty")
            /\ hist' = Count(hist)
            /\ UNCHANGED <<pc, area>>
    /\ UNCHANGED <<debug, raw, alt, termSize, screen, tsgr, tcursor, size, draw_buffer,
                   prev_buffer, split, changes, out, from, to>>

\* Canvas::btm.
Btm ==
    /\ InClosure
    /\ IF area.h > 0
       THEN TakeLine("btm", area.h - 1, RConsume(area))
       ELSE /\ line' = Line(0, 0)
            /\ last' = Record("btm", "empty")
            /\ hist' = Count(hist)
            /\ UNCHANGED <<pc, area>>
    /\ UNCHANGED <<debug, raw, alt, termSize, screen, tsgr, tcursor, size, draw_buffer,
                   prev_buffer, split, changes, out, from, to>>

\* What a Writer leaves: the line and the buffer's cells, or a panic of the
\* Vec's index.
Written(op, st, res) ==
    /\ draw_buffer' = [draw_buffer EXCEPT !.content = st.content]
    /\ line' = [line EXCEPT !.index = st.index, !.remaining = st.remaining]
    /\ hist' = Count(hist)
    /\ IF st.panic THEN Panic(op) ELSE pc' = pc /\ last' = Record(op, res)

\* Line::draw.
LineDraw(text, style) ==
    /\ InClosure
    /\ line.held
    /\ Written("draw", Draw(WState(line.index, line.remaining, draw_buffer.content, FALSE),
                            text, style),
               IF Len(text) > 1 THEN "fragments" ELSE "one")
    /\ UNCHANGED <<debug, raw, alt, termSize, screen, tsgr, tcursor, size, prev_buffer,
                   area, split, changes, out, from, to>>

\* Line::rdraw.
LineRDraw(text, style) ==
    /\ InClosure
    /\ line.held
    /\ Written("rdraw", RDraw(WState(line.index, line.remaining, draw_buffer.content, FALSE),
                              text, style), "ok")
    /\ UNCHANGED <<debug, raw, alt, termSize, screen, tsgr, tcursor, size, prev_buffer,
                   area, split, changes, out, from, to>>

\* Line::cursor: pos_of divides by nb_col and, in a debug build, asserts the
\* index is inside the content.
LineCursor ==
    /\ InClosure
    /\ line.held
    /\ IF draw_buffer.nb_col = 0 \/ (debug /\ ~PosInside(draw_buffer, line.index))
       THEN /\ Panic("cursor")
            /\ hist' = Count(hist)
            /\ UNCHANGED draw_buffer
       ELSE /\ draw_buffer' = [draw_buffer EXCEPT !.cursor_pos = PosOf(draw_buffer, line.index)]
            /\ hist' = Count([hist EXCEPT !.cursorCall = PosOf(draw_buffer, line.index)])
            /\ last' = Record("cursor", "ok")
            /\ pc' = pc
    /\ UNCHANGED <<debug, raw, alt, termSize, screen, tsgr, tcursor, size, prev_buffer,
                   area, line, split, changes, out, from, to>>

\* Canvas::line and Canvas::rline: the Line top() or btm() returns for row
\* `row` of the area, and Line::draw on it.
DrawOnRow(op, row, consumed, text, style) ==
    LET x == area.x % Usize
        y == (area.y + row) % Usize
        st == Draw(WState(IndexOf(draw_buffer, x, y), area.w, draw_buffer.content, FALSE),
                   text, style)
    IN  /\ InClosure
        /\ line' = NoLine
        /\ IF area.h = 0
           THEN /\ last' = Record(op, "empty")
                /\ hist' = Count(hist)
                /\ UNCHANGED <<pc, area, draw_buffer>>
           ELSE IF debug /\ ~IndexInside(draw_buffer, x, y)
           THEN /\ Panic(op)
                /\ hist' = Count(hist)
                /\ UNCHANGED <<area, draw_buffer>>
           ELSE /\ area' = consumed
                /\ draw_buffer' = [draw_buffer EXCEPT !.content = st.content]
                /\ hist' = Count([hist EXCEPT !.rows = Append(@, y)])
                /\ IF st.panic THEN Panic(op) ELSE pc' = pc /\ last' = Record(op, "row")
        /\ UNCHANGED <<debug, raw, alt, termSize, screen, tsgr, tcursor, size, prev_buffer,
                       split, changes, out, from, to>>

\* Canvas::line: self.top().draw(text, style).
CanvasLine(text, style) == DrawOnRow("line", 0, Consume(area), text, style)

\* Canvas::rline: self.btm().draw(text, style).
CanvasRLine(text, style) == DrawOnRow("rline", area.h - 1, RConsume(area), text, style)

\* Line::fit.
Fit(remaining, str) == StrWidth(str) < remaining

\* The state of a running Canvas::wrap: the canvas's area, the buffer's cells,
\* the next segment (words.peek()), the current line and its row, the draws
\* made so far, whether it has returned, whether it has panicked.
WrapState(a, content) ==
    [area |-> a, content |-> content, k |-> 1, index |-> 0, remaining |-> 0,
     row |-> 0, placed |-> <<>>, returned |-> FALSE, panic |-> FALSE]

\* Canvas::wrap: the inner loop on the current line.
RECURSIVE WrapLine(_, _, _)
WrapLine(w, words, style) ==
    IF w.k > Len(words) THEN [w EXCEPT !.returned = TRUE]
    ELSE IF ~Fit(w.remaining, words[w.k]) THEN w
    ELSE LET st == WriteStr(WState(w.index, w.remaining, w.content, FALSE), words[w.k], style)
             placed == Append(w.placed, [seg |-> w.k, row |-> w.row,
                                         index |-> w.index, remaining |-> w.remaining])
         IN  IF st.panic THEN [w EXCEPT !.panic = TRUE, !.placed = placed, !.content = st.content]
             ELSE WrapLine([w EXCEPT !.content = st.content, !.index = st.index,
                                     !.remaining = st.remaining, !.k = @ + 1,
                                     !.placed = placed],
                           words, style)

\* n calls of Area::consume.
ConsumeTimes(a, n) ==
    LET m == Min(n, a.h) IN [a EXCEPT !.y = (a.y + m) % Usize, !.h = a.h - m]

\* Canvas::wrap: the loop `for _ in 0..self.area.h`, with n rounds left; each
\* round takes the top line (Canvas::top) of an area that has one. Without
\* debug assertions a round whose fresh line cannot take the pending segment
\* only consumes its row, and so do all the rounds after it.
RECURSIVE WrapRows(_, _, _, _, _)
WrapRows(w, words, style, buf, n) ==
    IF n = 0 \/ w.returned \/ w.panic THEN w
    ELSE LET x == w.area.x % Usize
             y == w.area.y % Usize
         IN  IF debug /\ ~IndexInside(buf, x, y) THEN [w EXCEPT !.panic = TRUE]
             ELSE IF ~debug /\ w.k <= Len(words) /\ ~Fit(w.area.w, words[w.k])
             THEN [w EXCEPT !.area = ConsumeTimes(w.area, n)]
             ELSE WrapRows(WrapLine([w EXCEPT !.index = IndexOf(buf, x, y),
                                              !.remaining = w.area.w,
                                              !.area = Consume(w.area),
                                              !.row = y],
                                    words, style),
                           words, style, buf, n - 1)

\* Canvas::wrap on a text whose word-boundary segments are `words`.
Wrap(words, style) ==
    LET w == WrapRows(WrapState(area, draw_buffer.content), words, style, draw_buffer, area.h)
    IN  /\ InClosure
        /\ area' = w.area
        /\ draw_buffer' = [draw_buffer EXCEPT !.content = w.content]
        /\ line' = NoLine
        /\ hist' = Count([hist EXCEPT !.placed = w.placed])
        /\ IF w.panic THEN Panic("wrap")
           ELSE /\ pc' = pc
                /\ last' = Record("wrap", IF w.k > Len(words) THEN "all" ELSE "rows")
        /\ UNCHANGED <<debug, raw, alt, termSize, screen, tsgr, tcursor, size, prev_buffer,
                       split, changes, out, from, to>>

\* Canvas::split with SplitBuilder::vertical, gap and apply: a debug build
\* panics when the subtraction overflows, a release build wraps.
SplitApply(vertical, gap) ==
    /\ InClosure
    /\ IF debug /\ ApplyOverflows(area, vertical, gap)
       THEN Panic("split") /\ UNCHANGED split
       ELSE /\ split' = Apply(area, vertical, gap)
            /\ last' = Record("split", IF ApplyOverflows(area, vertical, gap)
                                       THEN "wrapped" ELSE "ok")
            /\ pc' = pc
    /\ line' = NoLine
    /\ hist' = Count([hist EXCEPT !.vertical = vertical, !.gap = gap])
    /\ UNCHANGED <<debug, raw, alt, termSize, screen, tsgr, tcursor, size, draw_buffer,
                   prev_buffer, area, changes, out, from, to>>

\* Split::first.
SplitFirst ==
    /\ InClosure
    /\ split.held
    /\ area' = split.first
    /\ line' = NoLine
    /\ hist' = Count([hist EXCEPT !.orig = split.first, !.rows = <<>>])
    /\ last' = Record("first", "ok")
    /\ UNCHANGED <<pc, debug, raw, alt, termSize, screen, tsgr, tcursor, size, draw_buffer,
                   prev_buffer, split, changes, out, from, to>>

\* Split::second.
SplitSecond ==
    /\ InClosure
    /\ split.held
    /\ area' = split.second
    /\ line' = NoLine
    /\ hist' = Count([hist EXCEPT !.orig = split.second, !.rows = <<>>])
    /\ last' = Record("second", "ok")
    /\ UNCHANGED <<pc, debug, raw, alt, termSize, screen, tsgr, tcursor, size, draw_buffer,
                   prev_buffer, split, changes, out, from, to>>

(***************************************************************************)
(* terminal.rs: the frame driver. Each call of the terminal control layer  *)
(* can fail; `outcome` names the first call that does, or "ok".            *)
(***************************************************************************)
Failed(h) == [h EXCEPT !.clean = FALSE]

Called(h) == [h EXCEPT !.calls = @ + 1]

\* The terminal as the variables hold it.
TheTerm == Term(termSize[1], screen, tsgr, tcursor)

\* The terminal takes the instructions.
TermTakes(instrs) ==
    LET t == TermRun(TheTerm, instrs)
    IN  /\ screen' = t.grid
        /\ tsgr' = t.sgr
        /\ tcursor' = t.cur

\* Terminal::new.
New(outcome) ==
    /\ pc = "start"
    /\ \/ /\ outcome = "enable_err"
          /\ pc' = "gone"
          /\ last' = Record("new", "err")
          /\ UNCHANGED <<raw, alt, screen, out>>
       \/ /\ outcome = "enter_err"
          /\ raw' = TRUE
          /\ pc' = "gone"
          /\ last' = Record("new", "err")
          /\ out' = <<Op("enable_raw_mode")>>
          /\ UNCHANGED <<alt, screen>>
       \/ /\ outcome = "ok"
          /\ raw' = TRUE
          /\ alt' = TRUE
          /\ screen' = BlankScreen(termSize)
          /\ pc' = "idle"
          /\ last' = Record("new", "ok")
          /\ out' = <<Op("enable_raw_mode"), Op("EnterAlternateScreen")>>
    /\ draw_buffer' = Empty(0, 0)
    /\ prev_buffer' = Empty(0, 0)
    /\ size' = <<0, 0>>
    /\ UNCHANGED <<debug, termSize, tsgr, tcursor, area, line, split, changes, hist, from, to>>

\* impl Drop for Terminal: each unwrap panics on an error, and ends the drop.
Drop(outcome) ==
    /\ pc \in {"idle", "panic"}
    /\ pc' = "gone"
    /\ \/ /\ outcome = "leave_err"
          /\ last' = Record("drop", "panic")
          /\ out' = <<>>
          /\ UNCHANGED <<raw, alt>>
       \/ /\ outcome = "disable_err"
          /\ alt' = FALSE
          /\ last' = Record("drop", "panic")
          /\ out' = <<Op("LeaveAlternateScreen")>>
          /\ UNCHANGED raw
       \/ /\ outcome = "ok"
          /\ alt' = FALSE
          /\ raw' = FALSE
          /\ last' = Record("drop", "ok")
          /\ out' = <<Op("LeaveAlternateScreen"), Op("disable_raw_mode")>>
    /\ UNCHANGED <<debug, termSize, screen, tsgr, tcursor, size, draw_buffer, prev_buffer,
                   area, line, split, changes, hist, from, to>>

\* The user resizes the terminal: the glyphs keep their places, new cells are blank.
ResizeTerminal(sz) ==
    /\ pc = "idle"
    /\ sz # termSize
    /\ termSize' = sz
    /\ screen' = [i \in 1..(sz[1] * sz[2]) |->
                    LET x == (i - 1) % sz[1]
                        y == (i - 1) \div sz[1]
                    IN  IF x < termSize[1] /\ y < termSize[2]
                        THEN screen[y * termSize[1] + x + 1]
                        ELSE DefaultCell]
    /\ last' = Record("resize", "ok")
    /\ UNCHANGED <<pc, debug, raw, alt, tsgr, tcursor, size, draw_buffer, prev_buffer,
                   area, line, split, changes, out, hist, from, to>>

\* Terminal::draw up to the call of the closure: autoresize, then
\* Buffer::canvas on the draw buffer.
DrawBegin(outcome) ==
    LET resized == termSize # size
        w == termSize[1]
        h == termSize[2]
    IN  /\ pc = "idle"
        /\ hist.calls < MaxCalls
        /\ \/ /\ outcome = "size_err"
              /\ last' = Record("draw", "err")
              /\ hist' = Called(Failed(hist))
              /\ out' = <<>>
              /\ UNCHANGED <<pc, size, draw_buffer, prev_buffer, area, line, split>>
           \/ /\ outcome = "clear_err"
              /\ resized
              /\ size' = <<w, h>>
              /\ draw_buffer' = Resize(draw_buffer, w, h)
              /\ prev_buffer' = Resize(prev_buffer, w, h)
              /\ last' = Record("draw", "err")
              /\ hist' = Called(Failed(hist))
              /\ out' = <<>>
              /\ UNCHANGED <<pc, area, line, split>>
           \/ /\ outcome = "ok"
              /\ IF resized
                 THEN /\ size' = <<w, h>>
                      /\ draw_buffer' = Resize(draw_buffer, w, h)
                      /\ prev_buffer' = Reset(Resize(prev_buffer, w, h))
                      /\ out' = <<Op("Clear")>>
                 ELSE /\ out' = <<>>
                      /\ UNCHANGED <<size, draw_buffer, prev_buffer>>
              /\ area' = CanvasArea(draw_buffer')
              /\ line' = NoLine
              /\ split' = NoSplit
              /\ pc' = "render"
              /\ last' = Record("autoresize", IF resized THEN "resized" ELSE "same")
              /\ hist' = [hist EXCEPT !.cursorCall = NoPos, !.orig = CanvasArea(draw_buffer'),
                                      !.rows = <<>>, !.n = 0, !.calls = @ + 1,
                                      !.resized = resized,
                                      !.sinceSuspend = Min(@ + 1, 2)]
        /\ UNCHANGED <<debug, raw, alt, termSize, screen, tsgr, tcursor, changes, from, to>>

\* Terminal::draw from the closure's return: apply_change (diff, draw_changes,
\* swap, reset), the cursor, the flush. After an error the terminal has taken
\* what was queued (applied) or none of it.
DrawEnd(outcome, applied) ==
    LET pos == draw_buffer.cursor_pos
        diff == Diff(prev_buffer, draw_buffer)
        queued == out \o DrawChanges(diff)
                  \o (IF outcome \in {"flush_err", "ok"} THEN CursorInstrs(pos) ELSE <<>>)
                  \o (IF outcome = "ok" THEN <<Op("Flush")>> ELSE <<>>)
    IN  /\ pc = "render"
        /\ pc' = "idle"
        /\ changes' = diff
        /\ out' = queued
        /\ IF outcome = "changes_err"
           THEN UNCHANGED <<draw_buffer, prev_buffer>>
           ELSE /\ prev_buffer' = draw_buffer
                /\ draw_buffer' = Reset(prev_buffer)
        /\ IF outcome = "ok"
           THEN /\ applied
                /\ last' = Record("draw", "ok")
                /\ hist' = hist
           ELSE /\ last' = Record("draw", "err")
                /\ hist' = Failed(hist)
        /\ IF applied THEN TermTakes(queued) ELSE UNCHANGED <<screen, tsgr, tcursor>>
        /\ UNCHANGED <<debug, raw, alt, termSize, size, area, line, split, from, to>>

\* Terminal::suspend_ui up to the call of f.
SuspendBegin(outcome) ==
    /\ pc = "idle"
    /\ hist.calls < MaxCalls
    /\ \/ /\ outcome = "disable_err"
          /\ last' = Record("suspend_ui", "err")
          /\ hist' = Called(Failed(hist))
          /\ out' = <<>>
          /\ UNCHANGED <<pc, raw, alt>>
       \/ /\ outcome = "leave_err"
          /\ raw' = FALSE
          /\ last' = Record("suspend_ui", "err")
          /\ hist' = Called(Failed(hist))
          /\ out' = <<Op("disable_raw_mode")>>
          /\ UNCHANGED <<pc, alt>>
       \/ /\ outcome = "ok"
          /\ raw' = FALSE
          /\ alt' = FALSE
          /\ pc' = "suspended"
          /\ last' = Record("suspend_ui", "left")
          /\ out' = <<Op("disable_raw_mode"), Op("LeaveAlternateScreen")>>
          /\ hist' = Called(hist)
    /\ UNCHANGED <<debug, termSize, screen, tsgr, tcursor, size, draw_buffer, prev_buffer,
                   area, line, split, changes, from, to>>

\* What a foreign program leaves on the alternate screen when it used it.
Scribble(grid) == [i \in 1..Len(grid) |-> Cell("b", "Reset", "Reset", {})]

\* The caller's action f, run by suspend_ui: it may hand the terminal to a
\* program that writes over the screen.
RunAction(scribbles) ==
    /\ pc = "suspended"
    /\ pc' = "resuming"
    /\ out' = Append(out, Op("f"))
    /\ screen' = IF scribbles THEN Scribble(screen) ELSE screen
    /\ last' = Record("f", "ok")
    /\ UNCHANGED <<debug, raw, alt, termSize, tsgr, tcursor, size, draw_buffer, prev_buffer,
                   area, line, split, changes, hist, from, to>>

\* Terminal::suspend_ui after f. Entering the alternate screen clears it.
SuspendEnd(outcome) ==
    /\ pc = "resuming"
    /\ pc' = "idle"
    /\ \/ /\ outcome = "enable_err"
          /\ last' = Record("suspend_ui", "err")
          /\ hist' = Failed(hist)
          /\ UNCHANGED <<raw, alt, screen, prev_buffer, out>>
       \/ /\ outcome = "enter_err"
          /\ raw' = TRUE
          /\ last' = Record("suspend_ui", "err")
          /\ hist' = Failed(hist)
          /\ out' = Append(out, Op("enable_raw_mode"))
          /\ UNCHANGED <<alt, screen, prev_buffer>>
       \/ /\ outcome = "ok"
          /\ raw' = TRUE
          /\ alt' = TRUE
          /\ screen' = BlankScreen(termSize)
          /\ prev_buffer' = Reset(prev_buffer)
          /\ last' = Record("suspend_ui", "ok")
          /\ hist' = [hist EXCEPT !.sinceSuspend = 0]
          /\ out' = out \o <<Op("enable_raw_mode"), Op("EnterAlternateScreen"),
                             Op("prev_buffer.reset")>>
    /\ UNCHANGED <<debug, termSize, tsgr, tcursor, size, draw_buffer, area, line, split,
                   changes, from, to>>

(***************************************************************************)
(* Spec: one lifetime of the frame driver, with every failure of the       *)
(* terminal control layer, and closures that take lines, draw and place    *)
(* the cursor.                                                             *)
(***************************************************************************)
DriverSizes == {<<c, 1>> : c \in 1..(MaxCols - 1)}

DriverTexts == {<<<<"a">>>>, <<<<"W">>>>}

InitDriver(sizes, limit, builds) ==
    /\ pc = "start"
    /\ debug \in builds
    /\ raw = FALSE /\ alt = FALSE
    /\ termSize \in sizes
    /\ screen = BlankScreen(termSize)
    /\ tsgr = DefaultSgr
    /\ tcursor = DefaultCursor
    /\ size = <<0, 0>>
    /\ draw_buffer = Empty(0, 0)
    /\ prev_buffer = Empty(0, 0)
    /\ area = Area(0, 0, 0, 0)
    /\ line = NoLine
    /\ split = NoSplit
    /\ changes = <<>>
    /\ out = <<>>
    /\ last = Record("start", "ok")
    /\ hist = [History EXCEPT !.limit = limit]
    /\ from = {} /\ to = {}

Init == InitDriver(DriverSizes, MaxDriverOps, BOOLEAN)

Next ==
    \/ \E outcome \in {"ok", "enable_err", "enter_err"} : New(outcome)
    \/ \E outcome \in {"ok", "leave_err", "disable_err"} : Drop(outcome)
    \/ \E sz \in DriverSizes : ResizeTerminal(sz)
    \/ \E outcome \in {"ok", "size_err", "clear_err"} : DrawBegin(outcome)
    \/ Top
    \/ \E text \in DriverTexts : LineDraw(text, none)
    \/ LineCursor
    \/ \E outcome \in {"ok", "changes_err", "cursor_err", "flush_err"}, applied \in BOOLEAN :
          DrawEnd(outcome, applied)
    \/ \E outcome \in {"ok", "disable_err", "leave_err"} : SuspendBegin(outcome)
    \/ \E scribbles \in BOOLEAN : RunAction(scribbles)
    \/ \E outcome \in {"ok", "enable_err", "enter_err"} : SuspendEnd(outcome)

Spec == Init /\ [][Next]_vars

(***************************************************************************)
(* SpecFrames: a driver whose calls all succeed, with closures that split  *)
(* the canvas and so can write a row more than once.                       *)
(***************************************************************************)
FrameSizes == {<<c, 1>> : c \in 2..MaxCols}

FrameTexts == {<<<<"a", "b">>>>, <<<<"W">>>>, <<<<"W", "a">>>>}

\* The splits of these closures have no gap and their lines stay inside the
\* buffer, so no debug assertion or overflow check is met: one build is enough.
InitFrames == InitDriver(FrameSizes, MaxFrameOps, {FALSE})

NextFrames ==
    \/ New("ok")
    \/ Drop("ok")
    \/ \E sz \in FrameSizes : ResizeTerminal(sz)
    \/ DrawBegin("ok")
    \/ Top
    \/ \E text \in FrameTexts : LineDraw(text, none)
    \/ \E vertical \in BOOLEAN : SplitApply(vertical, 0)
    \/ SplitFirst
    \/ SplitSecond
    \/ DrawEnd("ok", TRUE)
    \/ SuspendBegin("ok")
    \/ \E scribbles \in BOOLEAN : RunAction(scribbles)
    \/ SuspendEnd("ok")

SpecFrames == InitFrames /\ [][NextFrames]_vars

(***************************************************************************)
(* SpecCanvas: a render closure at work on a canvas over an empty buffer.  *)
(***************************************************************************)
Idle ==
    /\ raw = FALSE /\ alt = FALSE
    /\ termSize = <<0, 0>>
    /\ screen = <<>>
    /\ tsgr = DefaultSgr
    /\ tcursor = DefaultCursor
    /\ size = <<0, 0>>
    /\ prev_buffer = Empty(0, 0)
    /\ changes = <<>>
    /\ out = <<>>
    /\ from = {} /\ to = {}

InitCanvas ==
    /\ pc = "render"
    /\ debug \in BOOLEAN
    /\ \E c \in 1..MaxCols, r \in 1..MaxRows :
          /\ draw_buffer = Empty(c, r)
          /\ area = Area(0, 0, c, r)
          /\ hist = [History EXCEPT !.orig = Area(0, 0, c, r), !.limit = MaxOps]
    /\ line = NoLine
    /\ split = NoSplit
    /\ last = Record("canvas", "ok")
    /\ Idle

NextCanvas ==
    \/ Top
    \/ Btm
    \/ \E text \in Texts, style \in Styles : LineDraw(text, style)
    \/ \E text \in Texts, style \in Styles : LineRDraw(text, style)
    \/ LineCursor
    \/ \E vertical \in BOOLEAN, gap \in Gaps : SplitApply(vertical, gap)
    \/ SplitFirst
    \/ SplitSecond

SpecCanvas == InitCanvas /\ [][NextCanvas]_vars

(***************************************************************************)
(* SpecDiff: Buffer::diff on two buffers of the same dimensions, each      *)
(* filled by at most MaxWrites calls of Buffer::char_at between them.      *)
(***************************************************************************)
InitDiff ==
    /\ pc = "fill"
    /\ debug = FALSE
    /\ \E c \in 1..MaxCols, r \in 1..MaxRows :
          /\ draw_buffer = Empty(c, r)
          /\ prev_buffer = Empty(c, r)
    /\ raw = FALSE /\ alt = FALSE
    /\ termSize = <<0, 0>>
    /\ screen = <<>>
    /\ tsgr = DefaultSgr
    /\ tcursor = DefaultCursor
    /\ size = <<0, 0>>
    /\ area = Area(0, 0, 0, 0)
    /\ line = NoLine
    /\ split = NoSplit
    /\ changes = <<>>
    /\ out = <<>>
    /\ last = Record("empty", "ok")
    /\ hist = History
    /\ from = {} /\ to = {}

\* Buffer::char_at on the buffer diff is called on.
WritePrev(index, ch, style) ==
    /\ pc = "fill"
    /\ hist.n < MaxWrites
    /\ index < Len(prev_buffer.content)
    /\ prev_buffer' = CharAt(prev_buffer, index, ch, style)
    /\ hist' = Count(hist)
    /\ last' = Record("char_at", "prev")
    /\ UNCHANGED <<pc, debug, raw, alt, termSize, screen, tsgr, tcursor, size, draw_buffer,
                   area, line, split, changes, out, from, to>>

\* Buffer::char_at on the buffer diff is given.
WriteNext(index, ch, style) ==
    /\ pc = "fill"
    /\ hist.n < MaxWrites
    /\ index < Len(draw_buffer.content)
    /\ draw_buffer' = CharAt(draw_buffer, index, ch, style)
    /\ hist' = Count(hist)
    /\ last' = Record("char_at", "next")
    /\ UNCHANGED <<pc, debug, raw, alt, termSize, screen, tsgr, tcursor, size, prev_buffer,
                   area, line, split, changes, out, from, to>>

\* prev_buffer.diff(&draw_buffer).
DiffBuffers ==
    /\ pc = "fill"
    /\ changes' = Diff(prev_buffer, draw_buffer)
    /\ pc' = "diffed"
    /\ last' = Record("diff", "ok")
    /\ UNCHANGED <<debug, raw, alt, termSize, screen, tsgr, tcursor, size, draw_buffer,
                   prev_buffer, area, line, split, out, hist, from, to>>

NextDiff ==
    \/ \E index \in 0..(MaxCols * MaxRows - 1), ch \in {"a", "W"}, style \in Styles :
          WritePrev(index, ch, style)
    \/ \E index \in 0..(MaxCols * MaxRows - 1), ch \in {"a", "W"}, style \in Styles :
          WriteNext(index, ch, style)
    \/ DiffBuffers

SpecDiff == InitDiff /\ [][NextDiff]_vars

\* The cell of index i (from 0) of a buffer.
At(buf, i) == buf.content[i + 1]

\* The new buffer holds a wide character just before index i.
AfterWide(buf, i) == i > 0 /\ CharWidth(At(buf, i - 1).char) > 1

\* Index i is one diff has to report: the cell changed and is not the
\* column after a wide character of the new buffer.
Reported(prev, new, i) == At(new, i) # At(prev, i) /\ ~AfterWide(new, i)

\* C2: prev.diff(new) has an entry for index i exactly when new[i] differs
\* from prev[i] and new[i-1] is not a wide character; the entry carries
\* new[i] at (i mod columns, i div columns); there is no other entry, so no
\* entry lies just right of a wide character of the new buffer, and equal
\* buffers give the empty sequence.
C2_DiffExact ==
    pc = "diffed" =>
        LET prev == prev_buffer
            new == draw_buffer
            n == Len(new.content)
            cols == new.nb_col
        IN  /\ \A i \in 0..(n - 1) :
                  Reported(prev, new, i) <=>
                      \E k \in 1..Len(changes) :
                          changes[k] = Update(i % cols, i \div cols, At(new, i))
            /\ Len(changes) = Cardinality({i \in 0..(n - 1) : Reported(prev, new, i)})
            /\ \A k \in 1..Len(changes) :
                  ~AfterWide(new, changes[k].y * cols + changes[k].x)
            /\ (prev.content = new.content => changes = <<>>)

\* C2's case: a changed cell right of a wide character of the new buffer was
\* left out while another change was reported.
C2_Witness ==
    /\ pc = "diffed"
    /\ changes # <<>>
    /\ \E i \in 0..(Len(draw_buffer.content) - 1) :
          /\ At(draw_buffer, i) # At(prev_buffer, i)
          /\ AfterWide(draw_buffer, i)
          /\ ~AfterWide(prev_buffer, i)

(***************************************************************************)
(* SpecModifier: Modifier::diff between any two modifier sets, on a        *)
(* terminal whose active emphases are `from`.                              *)
(***************************************************************************)
InitModifier ==
    /\ pc = "modifier"
    /\ debug = FALSE
    /\ from \in Modifiers
    /\ to \in Modifiers
    /\ raw = FALSE /\ alt = FALSE
    /\ termSize = <<0, 0>>
    /\ screen = <<>>
    /\ tsgr = [DefaultSgr EXCEPT !.attrs = from]
    /\ tcursor = DefaultCursor
    /\ size = <<0, 0>>
    /\ draw_buffer = Empty(0, 0)
    /\ prev_buffer = Empty(0, 0)
    /\ area = Area(0, 0, 0, 0)
    /\ line = NoLine
    /\ split = NoSplit
    /\ changes = <<>>
    /\ out = <<>>
    /\ last = Record("modifier", "ok")
    /\ hist = History

\* Modifier::diff(w, from, to), and the terminal taking what it queued.
DiffModifier ==
    /\ pc = "modifier"
    /\ pc' = "diffed"
    /\ out' = AttrInstrs(from, to)
    /\ TermTakes(AttrInstrs(from, to))
    /\ last' = Record("Modifier::diff", "ok")
    /\ UNCHANGED <<debug, raw, alt, termSize, size, draw_buffer, prev_buffer, area, line,
                   split, changes, hist, from, to>>

NextModifier == DiffModifier

SpecModifier == InitModifier /\ [][NextModifier]_vars

(***************************************************************************)
(* What the claims speak of.                                               *)
(***************************************************************************)
\* The frame the last successful draw rendered: apply_change's swap left it
\* in prev_buffer.
Frame == prev_buffer

\* Column i (from 0) of the display is the second half of a wide glyph the
\* frame holds on its left.
Shadowed(i) ==
    /\ i % Frame.nb_col > 0
    /\ CharWidth(At(Frame, i - 1).char) > 1
    /\ screen[i + 1] = Covered

\* The display shows the frame: each cell shows the frame's cell, or is the
\* second half of the frame's wide glyph on its left.
DisplayIsFrame ==
    /\ Len(screen) = Len(Frame.content)
    /\ \A i \in 0..(Len(screen) - 1) : screen[i + 1] = At(Frame, i) \/ Shadowed(i)

\* The diff of the last draw has an entry for cell i of the frame.
Emitted(i) ==
    \E k \in 1..Len(changes) :
        changes[k] = Update(i % Frame.nb_col, i \div Frame.nb_col, At(Frame, i))

\* A draw has just returned Ok.
DrawReturnedOk == pc = "idle" /\ last = Record("draw", "ok")

\* C1: after every successful draw of a driver whose calls never failed
\* (closures may write a row more than once, through the halves of a split),
\* the display shows exactly the frame the closure rendered, cell for cell,
\* but for the columns wide glyphs cover.
C1_DisplayEqualsFrame == (DrawReturnedOk /\ hist.clean) => DisplayIsFrame

\* The fragments of a text, joined.
RECURSIVE Concat(_)
Concat(text) == IF text = <<>> THEN <<>> ELSE Head(text) \o Concat(Tail(text))

\* A string without its zero-width characters.
RECURSIVE Visible(_)
Visible(s) ==
    IF s = <<>> THEN <<>>
    ELSE IF CharWidth(Head(s)) = 0 THEN Visible(Tail(s))
    ELSE <<Head(s)>> \o Visible(Tail(s))

\* The line as a Writer takes it.
Here == WState(line.index, line.remaining, draw_buffer.content, FALSE)

\* C3: Line.draw of a text, as one string or as several fragments, takes its
\* characters left to right: zero-width ones are skipped, the others written
\* and the position advanced by their width, and the first one wider than
\* the remaining width ends the draw, it and all characters after it
\* dropped. So no cell outside the line's remaining span is written, and the
\* buffer is the one the text without its zero-width characters gives.
C3_DrawEndsAtFirstMisfit ==
    [][\A text \in Texts, style \in Styles :
          (LineDraw(text, style) /\ pc' = "render") =>
              LET whole == WriteStr(Here, Concat(text), style)
                  bare == WriteStr(Here, Visible(Concat(text)), style)
              IN  /\ draw_buffer'.content = whole.content
                  /\ line'.index = whole.index
                  /\ line'.remaining = whole.remaining
                  /\ draw_buffer'.content = bare.content
                  /\ \A i \in 0..(Len(draw_buffer.content) - 1) :
                        (i < line.index \/ i >= line.index + line.remaining)
                            => At(draw_buffer', i) = At(draw_buffer, i)]_vars

\* What the terminal's emphases are after Modifier::diff(from, to).
Active == tsgr.attrs

\* C4: Modifier::diff(from, to) emits one disable per bit of from \ to in
\* ascending bit order, then one enable per bit of to \ from in ascending
\* bit order, and nothing else; a terminal whose emphases were exactly
\* `from` (normal-intensity clearing both bold and dim) is left with exactly
\* the emphases of `to`.
C4_DiffReachesTo ==
    pc = "diffed" =>
        LET removed == IterModifier(from \ to)
            added == IterModifier(to \ from)
        IN  /\ Len(out) = Len(removed) + Len(added)
            /\ \A k \in 1..Len(removed) :
                  out[k] = Instr("SetAttribute", RemovedAttribute(removed[k]), 0)
            /\ \A k \in 1..Len(added) :
                  out[Len(removed) + k] = Instr("SetAttribute", AddedAttribute(added[k]), 0)
            /\ Active = to

\* Every cell of a buffer is the default cell.
AllDefault(buf) == \A i \in 1..Len(buf.content) : buf.content[i] = DefaultCell

\* A buffer has the dimensions sz and a cell for each position.
Sized(buf, sz) ==
    /\ buf.nb_col = sz[1]
    /\ buf.nb_row = sz[2]
    /\ Len(buf.content) = sz[1] * sz[2]

\* C5: when draw finds the terminal's dimensions changed then, before the
\* closure runs, both buffers have the new dimensions and only default
\* cells, whatever they held (content of an earlier failed draw included),
\* and a clear has been issued, so that the draw's diff has every cell of
\* the frame that is not the default cell; when the dimensions are the same
\* nothing is resized or cleared; and the buffers always have the cached
\* size.
C5_ResizeBlanksBoth ==
    /\ last = Record("autoresize", "resized") =>
          /\ size = termSize
          /\ Sized(draw_buffer, size) /\ Sized(prev_buffer, size)
          /\ AllDefault(draw_buffer) /\ AllDefault(prev_buffer)
          /\ out = <<Op("Clear")>>
    /\ (DrawReturnedOk /\ hist.resized) =>
          \A i \in 0..(Len(Frame.content) - 1) : At(Frame, i) # DefaultCell => Emitted(i)
    /\ last = Record("autoresize", "same") => size = termSize /\ out = <<>>
    /\ Sized(draw_buffer, size) /\ Sized(prev_buffer, size)

\* C6: a successful draw, after the cell changes and before the flush, shows
\* the cursor at the position of the closure's last Line.cursor() call of
\* this draw, or hides it when the closure made none; a position recorded in
\* an earlier frame (one whose draw failed included) is never used.
C6_CursorOfThisFrame ==
    DrawReturnedOk =>
        LET n == Len(out)
            pos == hist.cursorCall
        IN  /\ out[n] = Op("Flush")
            /\ IF pos = NoPos
               THEN out[n - 1] = Op("Hide") /\ ~tcursor.visible
               ELSE /\ out[n - 2] = Op("Show")
                    /\ out[n - 1] = Instr("MoveTo", pos[1], pos[2])
                    /\ tcursor = [visible |-> TRUE, pos |-> pos]

\* C7: a successful suspend_ui leaves raw mode, leaves the alternate screen,
\* runs the action once, enables raw mode, enters the alternate screen and
\* resets the previous buffer, in this order; the action runs with raw mode
\* off and the alternate screen left; and the next draw emits every cell of
\* its frame that is not the default cell (but for the cells right of a wide
\* character, which the diff never has), so that the display shows the frame
\* whatever the action wrote.
C7_SuspendThenRepaint ==
    /\ last = Record("suspend_ui", "ok") =>
          /\ out = <<Op("disable_raw_mode"), Op("LeaveAlternateScreen"), Op("f"),
                     Op("enable_raw_mode"), Op("EnterAlternateScreen"),
                     Op("prev_buffer.reset")>>
          /\ AllDefault(prev_buffer)
          /\ raw /\ alt
    /\ pc \in {"suspended", "resuming"} => ~raw /\ ~alt
    /\ (DrawReturnedOk /\ hist.sinceSuspend = 1) =>
          /\ \A i \in 0..(Len(Frame.content) - 1) :
                (At(Frame, i) # DefaultCell /\ ~AfterWide(Frame, i)) => Emitted(i)
          /\ DisplayIsFrame

\* C8: when the driver's lifetime has ended, on any path (a drop, a
\* Terminal::new that failed part-way, a drop after a failed draw or
\* suspend_ui), the terminal is neither in raw mode nor on the alternate
\* screen.
C8_TeardownAlways == pc = "gone" => ~raw /\ ~alt

\* A rectangle lies inside the buffer.
Inside(a, buf) == a.x + a.w <= buf.nb_col /\ a.y + a.h <= buf.nb_row

\* C9: on a canvas given a rectangle inside the buffer (of any width, 0
\* included), no top() or btm() signals a contract violation; a call made
\* while the height is positive returns a Line of the rectangle's width at
\* the left column of one of its rows, top() the topmost row left and btm()
\* the bottommost; no row is handed out twice; the working rectangle stays
\* inside the original; a call made at height 0 returns a zero-width Line.
C9_TopBtmInside ==
    (last.op \in {"top", "btm"} /\ Inside(hist.orig, draw_buffer)) =>
        LET orig == hist.orig
            rows == hist.rows
            n == Len(rows)
        IN  /\ last.res # "panic"
            /\ area.x = orig.x /\ area.w = orig.w
            /\ area.y >= orig.y /\ area.y + area.h <= orig.y + orig.h
            /\ \A k \in 1..n : rows[k] >= orig.y /\ rows[k] < orig.y + orig.h
            /\ \A j, k \in 1..n : j # k => rows[j] # rows[k]
            /\ last.res = "row" =>
                  /\ line = Line(rows[n] * draw_buffer.nb_col + orig.x, orig.w)
                  /\ last.op = "top" => rows[n] = area.y - 1
                  /\ last.op = "btm" => rows[n] = area.y + area.h
            /\ last.res = "empty" => area.h = 0 /\ line = Line(0, 0)

\* C10: split().vertical(v).gap(g).apply() on any working rectangle signals
\* a gap larger than the rectangle's size along the axis as a contract
\* violation; otherwise the first half starts at the rectangle's origin, the
\* second g after the first ends, the other axis is unchanged, the sizes are
\* floor((size - g) / 2) and ceil((size - g) / 2), first + g + second is the
\* size, and neither half extends outside the rectangle.
C10_SplitInside ==
    last.op = "split" =>
        LET v == hist.vertical
            g == hist.gap
            total == IF v THEN area.h ELSE area.w
            start == IF v THEN area.y ELSE area.x
            len(a) == IF v THEN a.h ELSE a.w
            at(a) == IF v THEN a.y ELSE a.x
            across(a) == IF v THEN <<a.x, a.w>> ELSE <<a.y, a.h>>
        IN  IF g > total
            THEN last.res = "panic"
            ELSE /\ last.res = "ok"
                 /\ across(split.first) = across(area)
                 /\ across(split.second) = across(area)
                 /\ at(split.first) = start
                 /\ at(split.second) = start + len(split.first) + g
                 /\ len(split.first) = (total - g) \div 2
                 /\ len(split.second) = (total - g) - ((total - g) \div 2)
                 /\ len(split.first) + g + len(split.second) = total
                 /\ at(split.second) + len(split.second) <= start + total

(***************************************************************************)
(* SpecWrap: Canvas::wrap on canvases a closure can reach by taking lines  *)
(* and splitting, over an empty buffer.                                    *)
(***************************************************************************)
MaxWrapOps == 4

\* Texts as their word-boundary segments: words, and the blanks between them.
WrapTexts ==
    {<<>>, <<<<"a", "b">>>>, <<<<"a", "b", "a">>>>, <<<<"Z", "a">>>>,
     <<<<"a">>, <<" ">>, <<"a", "b">>>>, <<<<"W">>, <<" ">>, <<"a">>>>}

InitWrap ==
    /\ pc = "render"
    /\ debug \in BOOLEAN
    /\ \E c \in 1..MaxCols, r \in 1..MaxRows :
          /\ draw_buffer = Empty(c, r)
          /\ area = Area(0, 0, c, r)
          /\ hist = [History EXCEPT !.orig = Area(0, 0, c, r), !.limit = MaxWrapOps]
    /\ line = NoLine
    /\ split = NoSplit
    /\ last = Record("canvas", "ok")
    /\ Idle

NextWrap ==
    \/ Top
    \/ \E vertical \in BOOLEAN, gap \in Gaps : SplitApply(vertical, gap)
    \/ SplitFirst
    \/ SplitSecond
    \/ \E words \in WrapTexts, style \in Styles : Wrap(words, style)

SpecWrap == InitWrap /\ [][NextWrap]_vars

\* The buffer's cells once the segments the draws p name are each written
\* whole at the place of their draw, from the j-th draw on.
RECURSIVE WrittenWhole(_, _, _, _, _)
WrittenWhole(content, p, words, style, j) ==
    IF j > Len(p) THEN content
    ELSE WrittenWhole(
            WriteStr(WState(p[j].index, StrWidth(words[p[j].seg]), content, FALSE),
                     words[p[j].seg], style).content,
            p, words, style, j + 1)

\* What a wrap of `words` that returned must have done, by the draws p it
\* made on the working rectangle a.
WrapKeepsSegments(words, style) ==
    LET a == area
        p == hist'.placed
        n == Len(p)
        cols == draw_buffer.nb_col
        width(j) == StrWidth(words[j])
        left(j) == IF j = 0 THEN a.w ELSE p[j].remaining - width(j)
        taken == a.h - area'.h
    IN  /\ n <= Len(words)
        /\ \A j \in 1..n :
              /\ p[j].seg = j
              /\ Fit(p[j].remaining, words[j])
              /\ p[j].row >= a.y /\ p[j].row < a.y + a.h
              /\ p[j].index >= p[j].row * cols + a.x
              /\ p[j].index + width(j) <= p[j].row * cols + a.x + a.w
              /\ p[j].index + width(j) <= (p[j].row + 1) * cols
              /\ IF j > 1 /\ p[j].row = p[j - 1].row
                 THEN /\ p[j].index = p[j - 1].index + width(j - 1)
                      /\ p[j].remaining = left(j - 1)
                 ELSE /\ p[j].row = (IF j = 1 THEN a.y ELSE p[j - 1].row + 1)
                      /\ p[j].index = p[j].row * cols + a.x
                      /\ p[j].remaining = a.w
                      /\ j > 1 => ~Fit(left(j - 1), words[j])
        /\ draw_buffer'.content = WrittenWhole(draw_buffer.content, p, words, style, 1)
        /\ area'.x = a.x /\ area'.w = a.w
        /\ taken >= 0 /\ taken <= a.h
        /\ IF n = Len(words)
           THEN taken = (IF a.h = 0 THEN 0 ELSE IF n = 0 THEN 1 ELSE p[n].row - a.y + 1)
           ELSE taken = a.h /\ (a.h > 0 => ~Fit(left(IF n > 0 /\ p[n].row = a.y + a.h - 1
                                                     THEN n ELSE 0), words[n + 1]))

\* C11: a Canvas.wrap that returns has written a prefix of the text's
\* segments, in order, each whole on one row of the canvas (none partly, none
\* across two rows); a row ends at the first segment that does not fit, and
\* that segment opens the next row; wrap takes no more rows than the canvas
\* had, and stops at the row of the last segment or when the rows are used up.
C11_WrapKeepsSegments ==
    [][\A words \in WrapTexts, style \in Styles :
          (Wrap(words, style) /\ pc' = "render") => WrapKeepsSegments(words, style)]_vars

(***************************************************************************)
(* SpecLines: Canvas::line and Canvas::rline on a canvas over an empty     *)
(* buffer, between calls of top and btm.                                   *)
(***************************************************************************)
InitLines == InitCanvas

NextLines ==
    \/ Top
    \/ Btm
    \/ \E text \in Texts, style \in Styles : CanvasLine(text, style)
    \/ \E text \in Texts, style \in Styles : CanvasRLine(text, style)

SpecLines == InitLines /\ [][NextLines]_vars

\* The cells of a buffer once the whole text is written from index i on.
TextAt(content, i, text, style) ==
    WriteStr(WState(i, Width(text), content, FALSE), Concat(text), style).content

\* C12: on a canvas with a row left, line(text, style) takes the top row and
\* writes a text that fits from the row's first column on; rline(text,
\* style) takes the bottom row and writes a text that fits so that it ends at
\* the row's last column; each shrinks the working rectangle by that row.
C12_LineLeftRLineRight ==
    [][\A text \in Texts, style \in Styles :
          LET cols == draw_buffer.nb_col
              fits == Width(text) <= area.w
              top == area.y * cols + area.x
              btm == (area.y + area.h - 1) * cols + area.x
          IN  /\ (CanvasLine(text, style) /\ area.h > 0 /\ pc' = "render") =>
                    /\ area' = [area EXCEPT !.y = area.y + 1, !.h = area.h - 1]
                    /\ fits => draw_buffer'.content =
                                  TextAt(draw_buffer.content, top, text, style)
              /\ (CanvasRLine(text, style) /\ area.h > 0 /\ pc' = "render") =>
                    /\ area' = [area EXCEPT !.h = area.h - 1]
                    /\ fits => draw_buffer'.content =
                                  TextAt(draw_buffer.content, btm + area.w - Width(text),
                                         text, style)]_vars

(***************************************************************************)
(* SpecBig: Buffer::diff on two buffers of dimensions a terminal can       *)
(* report (each below 2^U16Bits), with more cells than a u16 counts or     *)
(* just fewer, filled by at most MaxWrites calls of Buffer::char_at.       *)
(***************************************************************************)
BigSizes == {<<3, 5>>, <<2, 9>>, <<5, 4>>}

\* The cells written: the first ones, and the ones around index 2^U16Bits.
BigIndexes == {0, 1, U16 - 2, U16 - 1, U16, U16 + 1}

InitBig ==
    /\ pc = "fill"
    /\ debug = FALSE
    /\ \E sz \in BigSizes :
          /\ draw_buffer = Empty(sz[1], sz[2])
          /\ prev_buffer = Empty(sz[1], sz[2])
    /\ line = NoLine
    /\ split = NoSplit
    /\ area = Area(0, 0, 0, 0)
    /\ last = Record("empty", "ok")
    /\ hist = History
    /\ raw = FALSE /\ alt = FALSE
    /\ termSize = <<0, 0>>
    /\ screen = <<>>
    /\ tsgr = DefaultSgr
    /\ tcursor = DefaultCursor
    /\ size = <<0, 0>>
    /\ changes = <<>>
    /\ out = <<>>
    /\ from = {} /\ to = {}

NextBig ==
    \/ \E index \in BigIndexes, ch \in {"a", "W"} : WritePrev(index, ch, none)
    \/ \E index \in BigIndexes, ch \in {"a", "W"} : WriteNext(index, ch, none)
    \/ DiffBuffers

SpecBig == InitBig /\ [][NextBig]_vars

\* The index of the cell the k-th entry of the diff is placed at.
PlaceOf(k) == changes[k].y * draw_buffer.nb_col + changes[k].x

\* C13: for buffers of any dimensions a terminal can report, the entries of
\* Buffer::diff are in strictly ascending row-major order (so no position
\* appears twice), and each entry's (x, y) is the position of the cell it
\* carries: a cell of the new buffer that differs from the previous one's.
C13_DiffPositions ==
    pc = "diffed" =>
        /\ \A k \in 1..Len(changes) :
              /\ changes[k].x < draw_buffer.nb_col
              /\ changes[k].y < draw_buffer.nb_row
              /\ changes[k].cell = At(draw_buffer, PlaceOf(k))
              /\ At(draw_buffer, PlaceOf(k)) # At(prev_buffer, PlaceOf(k))
        /\ \A k \in 1..(Len(changes) - 1) : PlaceOf(k) < PlaceOf(k + 1)

\* C14: a Line.cursor() after any draws and rdraws on a Line of a Canvas
\* signals no contract violation and records a position inside the buffer
\* and, for a Line that has a row, on that row; so for a Line filled up to
\* its row's last column, a Line of the buffer's last row, and the
\* zero-width Line of a canvas without height.
C14_CursorOnLine ==
    last.op = "cursor" =>
        /\ last.res = "ok"
        /\ draw_buffer.cursor_pos # NoPos
        /\ LET pos == draw_buffer.cursor_pos
               rows == hist.rows
           IN  last.res = "ok" =>
                  /\ pos[1] < draw_buffer.nb_col
                  /\ pos[2] < draw_buffer.nb_row
                  /\ (line.index # 0 /\ rows # <<>>) => pos[2] = rows[Len(rows)]

====
